---- MODULE Spec2Model ----
(***************************************************************************)
(* A model of poor-mans-search-engine.                                     *)
(*                                                                         *)
(*   src/src/lib.rs   Searcher: the in-process inverted index with BM25    *)
(*   src/src/main.rs  ScoredIndexSearch: the index kept in a sorted-set    *)
(*                    store, scored with TF-IDF through a weighted union   *)
(*                                                                         *)
(* Text is a sequence of one-character strings, so that normalisation is   *)
(* computed character by character as the code does.                       *)
(***************************************************************************)
EXTENDS Integers, Sequences, FiniteSets

VARIABLES
    index,      \* Searcher.index : term -> doc_id -> count
    docs,       \* Searcher.docs  : doc_id -> [content, nterms]
    avdl,       \* Searcher.avdl  : f32
    searchOut,  \* what the last Searcher::search call returned
    nAdds,      \* number of add_document calls made so far
    everAdded,  \* history: doc_id -> the contents ever added under it
    readded,    \* history: some add_document call re-used a stored doc_id
    indexed,    \* store: the set "<prefix>indexed:"
    zsets,      \* store: the sorted sets "<prefix><term>" : term -> id -> score
    tempKeys,   \* store: how many "<prefix>temp:<n>" keys exist
    out,        \* what the last ScoredIndexSearch::search call did
    lastHc,     \* the last handle_content call and what it returned
    prevHc,     \* history: the handle_content call before the last one
    pre1,       \* history: indexed and zsets before the last handle_content call
    pre2        \* history: indexed and zsets before the call before the last one

memVars == <<index, docs, avdl, searchOut, nAdds, everAdded, readded>>

storeVars == <<indexed, zsets, tempKeys, out, lastHc>>

histVars == <<prevHc, pre1, pre2>>

vars == <<memVars, storeVars, histVars>>

-----------------------------------------------------------------------------
(* Bounds and input sets                                                   *)

\* add_document calls per behaviour
MaxAdds == 3

DocIds == {"1", "2", "3"}

\* Raw texts in the style of lib.rs's tests ("Nice, hello world! I like 42.", "").
MemContents ==
    { <<>>,
      <<"4">>,
      <<"4", "!", "4">>,
      <<"4", " ", "2">>,
      <<"2", ",", " ", "I">> }

MemQueries ==
    { <<"4">>,
      <<"2", " ", "4">>,
      <<"4", " ", "4">>,
      <<"I", " ", "4", "2", "!">> }

-----------------------------------------------------------------------------
(* Characters                                                              *)

UpperChars ==
    <<"A","B","C","D","E","F","G","H","I","J","K","L","M",
      "N","O","P","Q","R","S","T","U","V","W","X","Y","Z">>

LowerChars ==
    <<"a","b","c","d","e","f","g","h","i","j","k","l","m",
      "n","o","p","q","r","s","t","u","v","w","x","y","z">>

DigitChars == <<"0","1","2","3","4","5","6","7","8","9">>

Range(s) == { s[i] : i \in DOMAIN s }

\* char::to_lowercase
ToLowerChar(c) ==
    IF \E i \in DOMAIN UpperChars : UpperChars[i] = c
    THEN LowerChars[CHOOSE i \in DOMAIN UpperChars : UpperChars[i] = c]
    ELSE c

\* str::to_lowercase
ToLowercase(s) == [i \in DOMAIN s |-> ToLowerChar(s[i])]

\* str::split_whitespace: the maximal runs of non-space characters, in order
RECURSIVE SplitFrom(_, _, _)
SplitFrom(s, i, cur) ==
    IF i > Len(s)
    THEN IF cur = <<>> THEN <<>> ELSE <<cur>>
    ELSE IF s[i] = " "
         THEN IF cur = <<>>
              THEN SplitFrom(s, i + 1, <<>>)
              ELSE <<cur>> \o SplitFrom(s, i + 1, <<>>)
         ELSE SplitFrom(s, i + 1, Append(cur, s[i]))

SplitWhitespace(s) == SplitFrom(s, 1, <<>>)

\* [&str]::join(" ")
RECURSIVE JoinSpace(_)
JoinSpace(ws) ==
    IF ws = <<>> THEN <<>>
    ELSE IF Len(ws) = 1 THEN ws[1]
    ELSE ws[1] \o <<" ">> \o JoinSpace(Tail(ws))

-----------------------------------------------------------------------------
(* lib.rs: normalize_string                                                *)

\* the characters the pattern [^a-z0-9 ] leaves alone
MemWordChars == Range(LowerChars) \cup Range(DigitChars) \cup {" "}

\* stop_words::get(English), as far as lib.rs's own test shows it:
\* "Nice, hello world! I like 42." normalises to "nice 42".
StopWordsEng ==
    { <<"i">>,
      <<"l","i","k","e">>,
      <<"h","e","l","l","o">>,
      <<"w","o","r","l","d">> }

\* Regex::replace_all(.., " ") with [^a-z0-9 ]
MemReplaceNonWords(s) ==
    [i \in DOMAIN s |-> IF s[i] \in MemWordChars THEN s[i] ELSE " "]

\* .filter(|word| !stop_words_eng.contains(&word.to_string()))
RECURSIVE MemFilterStopWords(_)
MemFilterStopWords(ws) ==
    IF ws = <<>> THEN <<>>
    ELSE IF ws[1] \notin StopWordsEng
         THEN <<ws[1]>> \o MemFilterStopWords(Tail(ws))
         ELSE MemFilterStopWords(Tail(ws))

normalize_string(s) ==
    JoinSpace(MemFilterStopWords(SplitWhitespace(MemReplaceNonWords(ToLowercase(s)))))

\* filtered_content.split_whitespace(): the terms of a text, in order
MemTerms(s) == SplitWhitespace(normalize_string(s))

\* MemTerms of every text of the model, computed once
MemTermsOf == [c \in MemContents \cup MemQueries |-> MemTerms(c)]

-----------------------------------------------------------------------------
(* f32 arithmetic, round to nearest, ties to even.                         *)
(* A finite non-negative f32 is [m, e]: zero is m = 0, e = 0; otherwise    *)
(* 2^23 <= m < 2^24 and the value is m * 2^e.                              *)

RECURSIVE Pow2(_)
Pow2(n) == IF n = 0 THEN 1 ELSE 2 * Pow2(n - 1)

F32Zero == [m |-> 0, e |-> 0]

\* The f32 nearest to M * 2^E (+ a non-zero tail below the last bit of M
\* when sticky), for 0 < M < 2^31.
F32Round(M, E, sticky) ==
    IF M < Pow2(24)
    THEN LET s == CHOOSE k \in 0..23 : M * Pow2(k) >= Pow2(23) /\ M * Pow2(k) < Pow2(24)
         IN  [m |-> M * Pow2(s), e |-> E - s]
    ELSE LET s    == CHOOSE k \in 1..7 : (M \div Pow2(k)) >= Pow2(23) /\ (M \div Pow2(k)) < Pow2(24)
             q    == M \div Pow2(s)
             r    == M % Pow2(s)
             half == Pow2(s - 1)
             up   == \/ r > half
                     \/ r = half /\ sticky
                     \/ r = half /\ ~sticky /\ q % 2 = 1
             q2   == IF up THEN q + 1 ELSE q
         IN  IF q2 = Pow2(24)
             THEN [m |-> Pow2(23), e |-> E + s + 1]
             ELSE [m |-> q2, e |-> E + s]

\* `n as f32` for a small non-negative integer
F32FromInt(n) == IF n = 0 THEN F32Zero ELSE F32Round(n, 0, FALSE)

\* a * (k as f32), k < 2^7
F32MulInt(a, k) ==
    IF a.m = 0 \/ k = 0 THEN F32Zero ELSE F32Round(a.m * k, a.e, FALSE)

\* a + (t as f32), for a below 2^23 (a.e < 0) and t small
F32AddInt(a, t) ==
    IF a.m = 0 THEN F32FromInt(t)
    ELSE IF t = 0 THEN a
    ELSE F32Round(a.m + t * Pow2(0 - a.e), a.e, FALSE)

\* a / (n as f32), 1 <= n <= 32
F32DivInt(a, n) ==
    IF a.m = 0 THEN F32Zero
    ELSE F32Round((a.m * Pow2(7)) \div n, a.e - 7, (a.m * Pow2(7)) % n # 0)

\* the f32 nearest to S / n, for 0 <= S < 2^10 and 1 <= n <= 32
F32Quot(S, n) ==
    IF S = 0 THEN F32Zero
    ELSE LET k == CHOOSE j \in 0..29 : S * Pow2(j) < Pow2(30) /\ S * Pow2(j + 1) >= Pow2(30)
         IN  F32Round((S * Pow2(k)) \div n, 0 - k, (S * Pow2(k)) % n # 0)

-----------------------------------------------------------------------------
(* lib.rs: Searcher                                                        *)

EmptyMap == [x \in {} |-> 0]

NoSearch == [called |-> FALSE, query |-> <<>>, scores |-> EmptyMap]

\* Searcher::new
MemInit ==
    /\ index = EmptyMap
    /\ docs = EmptyMap
    /\ avdl = F32Zero
    /\ searchOut = NoSearch
    /\ nAdds = 0
    /\ everAdded = [d \in DocIds |-> {}]
    /\ readded = FALSE

\* one pass of the loop body of add_document: index.entry(term).or_default()
\* .entry(doc_id).and_modify(|x| *x += 1).or_insert(1)
IndexTerm(idx, term, d) ==
    LET old == IF term \in DOMAIN idx THEN idx[term] ELSE EmptyMap
        new == [x \in DOMAIN old \cup {d} |->
                    IF x = d
                    THEN (IF d \in DOMAIN old THEN old[d] + 1 ELSE 1)
                    ELSE old[x]]
    IN  [t \in DOMAIN idx \cup {term} |-> IF t = term THEN new ELSE idx[t]]

\* a variant of the loop that stops one term early
RECURSIVE IndexTermsMissLast(_, _, _)
IndexTermsMissLast(idx, terms, d) ==
    IF Len(terms) <= 1 THEN idx
    ELSE IndexTermsMissLast(IndexTerm(idx, terms[1], d), Tail(terms), d)

\* the loop of add_document over the terms of the text
RECURSIVE IndexTerms(_, _, _)
IndexTerms(idx, terms, d) ==
    IF terms = <<>> THEN idx
    ELSE IndexTerms(IndexTerm(idx, terms[1], d), Tail(terms), d)

\* docs.insert(doc_id, Document { content, nterms })
DocsInsert(ds, d, content, nterms) ==
    [x \in DOMAIN ds \cup {d} |->
        IF x = d THEN [content |-> content, nterms |-> nterms] ELSE ds[x]]

\* a variant of the update that does not weigh the old mean by n - 1
AvdlAfterNoWeight(a, n, nterms) ==
    F32DivInt(F32AddInt(a, nterms), n)

\* (avdl * (docs.len() - 1) as f32 + nterms as f32) / docs.len() as f32,
\* n = docs.len() after the insert
AvdlAfter(a, n, nterms) ==
    F32DivInt(F32AddInt(F32MulInt(a, n - 1), nterms), n)

\* Searcher::add_document; the value the last search returned is dropped
add_document(d, content) ==
    LET terms  == MemTermsOf[content]
        nterms == Len(terms)
        ds     == DocsInsert(docs, d, content, nterms)
    IN  /\ nAdds < MaxAdds
        /\ index' = IndexTerms(index, terms, d)
        /\ docs' = ds
        /\ avdl' = AvdlAfter(avdl, Cardinality(DOMAIN ds), nterms)
        /\ searchOut' = NoSearch
        /\ nAdds' = nAdds + 1
        /\ everAdded' = [everAdded EXCEPT ![d] = @ \cup {content}]
        /\ readded' = (readded \/ d \in DOMAIN docs)
        /\ UNCHANGED <<storeVars, histVars>>

AddDocument == \E d \in DocIds, c \in MemContents : add_document(d, c)

\* Sign classes of an f32: "zero", "pos", "inf" (+infinity), "nan".
ClsMul(a, b) ==
    IF a = "nan" \/ b = "nan" THEN "nan"
    ELSE IF (a = "zero" /\ b = "inf") \/ (a = "inf" /\ b = "zero") THEN "nan"
    ELSE IF a = "zero" \/ b = "zero" THEN "zero"
    ELSE IF a = "inf" \/ b = "inf" THEN "inf"
    ELSE "pos"

ClsAdd(a, b) ==
    IF a = "nan" \/ b = "nan" THEN "nan"
    ELSE IF a = "inf" \/ b = "inf" THEN "inf"
    ELSE IF a = "zero" THEN b
    ELSE a

ClsDiv(a, b) ==
    IF a = "nan" \/ b = "nan" THEN "nan"
    ELSE IF (a = "zero" /\ b = "zero") \/ (a = "inf" /\ b = "inf") THEN "nan"
    ELSE IF b = "zero" THEN "inf"
    ELSE IF b = "inf" THEN "zero"
    ELSE a

ClsOfInt(n) == IF n = 0 THEN "zero" ELSE "pos"

ClsOfF32(a) == IF a.m = 0 THEN "zero" ELSE "pos"

\* Searcher::idf: ln((N - n_t + 0.5) / (n_t + 0.5) + 1), the logarithm of a
\* value above 1 whenever N >= n_t. (N < n_t gives a negative value or no
\* number; a posting's doc_id is always a key of docs, so it is never reached.)
idf(term) ==
    LET docs_count == Cardinality(DOMAIN docs)
        docs_with_term_count ==
            IF term \in DOMAIN index THEN Cardinality(DOMAIN index[term]) ELSE 0
    IN  IF docs_count >= docs_with_term_count THEN "pos" ELSE "nan"

\* the score of one posting in Searcher::bm25
Bm25Score(term, d) ==
    LET tf == ClsOfInt(index[term][d])
        dl == ClsOfInt(docs[d].nterms)
        numerator == ClsMul(tf, "pos")                     \* tf * (k1 + 1.0)
        denominator ==                                     \* k1 * ((1 - b) + b * (dl / avdl))
            ClsMul("pos", ClsAdd("pos", ClsMul("pos", ClsDiv(dl, ClsOfF32(avdl)))))
    IN  ClsDiv(ClsMul(idf(term), numerator), denominator)

\* a variant that scores every stored document, 0.0 where the term is absent
bm25_AllDocs(term) ==
    IF term \in DOMAIN index
    THEN [d \in DOMAIN docs |->
            IF d \in DOMAIN index[term] THEN Bm25Score(term, d) ELSE "zero"]
    ELSE [d \in DOMAIN docs |-> "zero"]

\* Searcher::bm25
bm25(term) ==
    IF term \in DOMAIN index
    THEN [d \in DOMAIN index[term] |-> Bm25Score(term, d)]
    ELSE EmptyMap

\* the fold of Searcher::search: acc.entry(doc_id).or_insert(0.0) += score
Accumulate(acc, scores) ==
    [d \in DOMAIN acc \cup DOMAIN scores |->
        IF d \in DOMAIN scores
        THEN ClsAdd(IF d \in DOMAIN acc THEN acc[d] ELSE "zero", scores[d])
        ELSE acc[d]]

RECURSIVE FoldScores(_, _)
FoldScores(acc, terms) ==
    IF terms = <<>> THEN acc
    ELSE FoldScores(Accumulate(acc, bm25(terms[1])), Tail(terms))

\* Searcher::search
search(query) == FoldScores(EmptyMap, MemTermsOf[query])

MemSearch ==
    \E q \in MemQueries :
        /\ searchOut' = [called |-> TRUE, query |-> q, scores |-> search(q)]
        /\ UNCHANGED <<index, docs, avdl, nAdds, everAdded, readded>>
        /\ UNCHANGED <<storeVars, histVars>>

-----------------------------------------------------------------------------
(* main.rs: get_index_keys                                                 *)

StoreIds == {"1", "2"}

\* the byte order of the ids, which breaks ties between equal scores
StoreIdOrder == <<"1", "2">>

\* Raw texts in the style of main.rs's test ("hello world", ...).
StoreContents ==
    { <<"o","x"," ","g","o">>,
      <<"g","o">>,
      <<"G","o"," ","'","o","x","'"," ","i","s"," ","g","o","!">> }

StoreQueries ==
    { <<"o","x">>,
      <<"O","x",","," ","u","p"," ","g","o">>,
      <<"g","o"," ","x">>,
      <<"i","s"," ","a">> }

Offsets == {0, 1}

Counts == {0, 1, 2}

\* leaked "<prefix>temp:<n>" keys the model follows
MaxLeaked == 1

\* the characters NON_WORDS, [^a-z0-9' ], leaves alone
StoreWordChars == Range(LowerChars) \cup Range(DigitChars) \cup {"'", " "}

\* STOP_WORDS
STOP_WORDS ==
    {
      <<"a">>, <<"a","b","l","e">>, <<"a","b","o","u","t">>,
      <<"a","c","r","o","s","s">>, <<"a","f","t","e","r">>, <<"a","l","l">>,
      <<"a","l","m","o","s","t">>, <<"a","l","s","o">>, <<"a","m">>,
      <<"a","m","o","n","g">>, <<"a","n">>, <<"a","n","d">>, <<"a","n","y">>,
      <<"a","r","e">>, <<"a","s">>, <<"a","t">>, <<"b","e">>,
      <<"b","e","c","a","u","s","e">>, <<"b","e","e","n">>, <<"b","u","t">>,
      <<"b","y">>, <<"c","a","n">>, <<"c","a","n","n","o","t">>,
      <<"c","o","u","l","d">>, <<"d","e","a","r">>, <<"d","i","d">>,
      <<"d","o">>, <<"d","o","e","s">>, <<"e","i","t","h","e","r">>,
      <<"e","l","s","e">>, <<"e","v","e","r">>, <<"e","v","e","r","y">>,
      <<"f","o","r">>, <<"f","r","o","m">>, <<"g","e","t">>, <<"g","o","t">>,
      <<"h","a","d">>, <<"h","a","s">>, <<"h","a","v","e">>, <<"h","e">>,
      <<"h","e","r">>, <<"h","e","r","s">>, <<"h","i","m">>, <<"h","i","s">>,
      <<"h","o","w">>, <<"h","o","w","e","v","e","r">>, <<"i">>, <<"i","f">>,
      <<"i","n">>, <<"i","n","t","o">>, <<"i","s">>, <<"i","t">>,
      <<"i","t","s">>, <<"j","u","s","t">>, <<"l","e","a","s","t">>,
      <<"l","e","t">>, <<"l","i","k","e">>, <<"l","i","k","e","l","y">>,
      <<"m","a","y">>, <<"m","e">>, <<"m","i","g","h","t">>,
      <<"m","o","s","t">>, <<"m","u","s","t">>, <<"m","y">>,
      <<"n","e","i","t","h","e","r">>, <<"n","o">>, <<"n","o","r">>,
      <<"n","o","t">>, <<"o","f">>, <<"o","f","f">>, <<"o","f","t","e","n">>,
      <<"o","n">>, <<"o","n","l","y">>, <<"o","r">>, <<"o","t","h","e","r">>,
      <<"o","u","r">>, <<"o","w","n">>, <<"r","a","t","h","e","r">>,
      <<"s","a","i","d">>, <<"s","a","y">>, <<"s","a","y","s">>,
      <<"s","h","e">>, <<"s","h","o","u","l","d">>, <<"s","i","n","c","e">>,
      <<"s","o">>, <<"s","o","m","e">>, <<"t","h","a","n">>,
      <<"t","h","a","t">>, <<"t","h","e">>, <<"t","h","e","i","r">>,
      <<"t","h","e","m">>, <<"t","h","e","n">>, <<"t","h","e","r","e">>,
      <<"t","h","e","s","e">>, <<"t","h","e","y">>, <<"t","h","i","s">>,
      <<"t","i","s">>, <<"t","o">>, <<"t","o","o">>, <<"t","w","a","s">>,
      <<"u","s">>, <<"w","a","n","t","s">>, <<"w","a","s">>, <<"w","e">>,
      <<"w","e","r","e">>, <<"w","h","a","t">>, <<"w","h","e","n">>,
      <<"w","h","e","r","e">>, <<"w","h","i","c","h">>,
      <<"w","h","i","l","e">>, <<"w","h","o">>, <<"w","h","o","m">>,
      <<"w","h","y">>, <<"w","i","l","l">>, <<"w","i","t","h">>,
      <<"w","o","u","l","d">>, <<"y","e","t">>, <<"y","o","u">>,
      <<"y","o","u","r">> }

StoreReplaceNonWords(s) ==
    [i \in DOMAIN s |-> IF s[i] \in StoreWordChars THEN s[i] ELSE " "]

\* str::trim_matches('\'')
RECURSIVE TrimApostrophes(_)
TrimApostrophes(w) ==
    IF w = <<>> THEN w
    ELSE IF w[1] = "'" THEN TrimApostrophes(Tail(w))
    ELSE IF w[Len(w)] = "'" THEN TrimApostrophes(SubSeq(w, 1, Len(w) - 1))
    ELSE w

\* .map(trim).filter(|word| !STOP_WORDS.contains(word) && word.len() > 1)
RECURSIVE TrimAndFilter(_)
TrimAndFilter(ws) ==
    IF ws = <<>> THEN <<>>
    ELSE LET w == TrimApostrophes(ws[1])
         IN  IF w \notin STOP_WORDS /\ Len(w) > 1
             THEN <<w>> \o TrimAndFilter(Tail(ws))
             ELSE TrimAndFilter(Tail(ws))

\* the `words` of get_index_keys
StoreWords(content) ==
    TrimAndFilter(SplitWhitespace(StoreReplaceNonWords(ToLowercase(content))))

CountOf(ws, w) == Cardinality({ i \in DOMAIN ws : ws[i] = w })

\* get_index_keys: word -> count / wordcount when adding, word -> 0.0 otherwise
get_index_keys(content, add) ==
    LET words == StoreWords(content)
    IN  [w \in Range(words) |->
            IF add THEN F32Quot(CountOf(words, w), Len(words)) ELSE F32Zero]

\* get_index_keys of every text of the model, computed once
KeysOf ==
    [c \in StoreContents \cup StoreQueries |->
        [add \in BOOLEAN |-> get_index_keys(c, add)]]

-----------------------------------------------------------------------------
(* The store's commands, for the ones that are answered                    *)

\* ZADD key score member, for every (key, score) of keys
ZAddAll(zs, keys, id) ==
    [t \in DOMAIN zs \cup DOMAIN keys |->
        IF t \in DOMAIN keys
        THEN LET old == IF t \in DOMAIN zs THEN zs[t] ELSE EmptyMap
             IN  [x \in DOMAIN old \cup {id} |-> IF x = id THEN keys[t] ELSE old[x]]
        ELSE zs[t]]

\* ZREM key member, for every key of terms; the store drops a key left empty
ZRemAll(zs, terms, id) ==
    LET left == [t \in DOMAIN zs |->
                    IF t \in terms
                    THEN [x \in DOMAIN zs[t] \ {id} |-> zs[t][x]]
                    ELSE zs[t]]
    IN  [t \in { k \in DOMAIN left : DOMAIN left[k] # {} } |-> left[t]]

\* a key that does not exist reads as an empty sorted set
ZSetOf(t) == IF t \in DOMAIN zsets THEN zsets[t] ELSE EmptyMap

\* ZCARD key
ZCard(t) == Cardinality(DOMAIN ZSetOf(t))

\* A score the store holds is a double; the model counts it in units of
\* 2^-26, which is exact for every f32 of at least 2^-3.
ScoreUnits(a) == IF a.m = 0 THEN 0 ELSE a.m * Pow2(a.e + 26)

\* the f32 a score of the store is returned as
F32OfUnits(u) == IF u = 0 THEN F32Zero ELSE F32Round(u, 0 - 26, FALSE)

RECURSIVE SumUnits(_, _, _)
SumUnits(ts, id, idfs) ==
    IF ts = {} THEN 0
    ELSE LET t == CHOOSE x \in ts : TRUE
         IN  ScoreUnits(ZSetOf(t)[id]) * idfs[t] + SumUnits(ts \ {t}, id, idfs)

\* ZUNIONSTORE dest n key.. WEIGHTS w..: member -> sum of weight * score
\* over the keys that hold it
ZUnion(ts, idfs) ==
    [id \in UNION { DOMAIN ZSetOf(t) : t \in ts } |->
        SumUnits({ t \in ts : id \in DOMAIN ZSetOf(t) }, id, idfs)]

IdRank(id) == CHOOSE i \in DOMAIN StoreIdOrder : StoreIdOrder[i] = id

\* members from the highest score down, equal scores from the highest member down
RECURSIVE Ranked(_)
Ranked(z) ==
    IF DOMAIN z = {} THEN <<>>
    ELSE LET top == CHOOSE x \in DOMAIN z :
                        \A y \in DOMAIN z :
                            \/ z[x] > z[y]
                            \/ z[x] = z[y] /\ IdRank(x) >= IdRank(y)
         IN  <<top>> \o Ranked([y \in DOMAIN z \ {top} |-> z[y]])

\* ZREVRANGE key start stop WITHSCORES: both ends inclusive, a negative index
\* counts from the end
ZRevRange(z, start, stop) ==
    LET r  == Ranked(z)
        n  == Len(r)
        s0 == IF start < 0 THEN (IF n + start < 0 THEN 0 ELSE n + start) ELSE start
        e0 == IF stop < 0 THEN n + stop ELSE (IF stop >= n THEN n - 1 ELSE stop)
    IN  IF s0 > e0 \/ s0 >= n THEN <<>>
        ELSE [i \in 1..(e0 - s0 + 1) |-> <<r[s0 + i], F32OfUnits(z[r[s0 + i]])>>]

-----------------------------------------------------------------------------
(* main.rs: ScoredIndexSearch                                              *)

NoCall == [op |-> "none", id |-> "", content |-> <<>>, ret |-> 0]

NoOut ==
    [called |-> FALSE, query |-> <<>>, offset |-> 0, count |-> 0,
     failAt |-> "none", build |-> "release", status |-> "ok",
     ids |-> <<>>, known |-> 0, cmds |-> <<>>, unionKeys |-> {}, keyLeft |-> FALSE]

EmptyStore == [indexed |-> {}, zsets |-> EmptyMap]

StoreInit ==
    /\ indexed = {}
    /\ zsets = EmptyMap
    /\ tempKeys = 0
    /\ out = NoOut
    /\ lastHc = NoCall
    /\ prevHc = NoCall
    /\ pre1 = EmptyStore
    /\ pre2 = EmptyStore

\* the pipeline of handle_content, answered by the store: what it leaves
IndexedAfter(id, add) ==
    IF add THEN indexed \cup {id} ELSE indexed \ {id}

\* a variant whose removal sends no ZREM
ZsetsAfter_NoRemove(id, content, add) ==
    IF add
    THEN ZAddAll(zsets, KeysOf[content][add], id)
    ELSE zsets

ZsetsAfter(id, content, add) ==
    IF add
    THEN ZAddAll(zsets, KeysOf[content][add], id)
    ELSE ZRemAll(zsets, DOMAIN KeysOf[content][add], id)

\* handle_content: the call and what it returns, keys.len()
HcCall(id, content, add) ==
    [op |-> IF add THEN "add" ELSE "remove", id |-> id, content |-> content,
     ret |-> Cardinality(DOMAIN KeysOf[content][add])]

\* handle_content (add_indexed_item is handle_content(id, content, true)).
\* A pipeline the store does not answer panics in unwrap and returns
\* nothing; the calls followed here are the answered ones.
handle_content(id, content, add) ==
    /\ indexed' = IndexedAfter(id, add)
    /\ zsets' = ZsetsAfter(id, content, add)
    /\ lastHc' = HcCall(id, content, add)
    /\ out' = NoOut
    /\ UNCHANGED tempKeys

HandleContent ==
    \E id \in StoreIds, c \in StoreContents, add \in BOOLEAN :
        /\ handle_content(id, c, add)
        /\ UNCHANGED <<memVars, histVars>>

\* the same calls, with the two-call history kept
HandleContentTracked ==
    \E id \in StoreIds, c \in StoreContents, add \in BOOLEAN :
        /\ handle_content(id, c, add)
        /\ prevHc' = lastHc
        /\ pre1' = [indexed |-> indexed, zsets |-> zsets]
        /\ pre2' = pre1
        /\ UNCHANGED memVars

\* (total_docs / count).log2().max(0.0), and 0.0 for count == 0.0. The
\* ratios the model reaches are at most 1, or 2 (StoreIds has two ids), so
\* that the logarithm is a whole number.
Idf(total_docs, count) ==
    IF count = 0 THEN 0
    ELSE CASE total_docs <= count      -> 0
           [] total_docs = 2 * count   -> 1
           [] total_docs = 4 * count   -> 2

\* a variant that reads the cardinality of a key that does not exist
TotalDocs_WrongKey(failAt) == 0

\* self.connection.scard("<prefix>indexed:").unwrap_or(1)
TotalDocs(failAt) == IF failAt = "scard" THEN 1 ELSE Cardinality(indexed)

\* a variant that keeps the terms of IDF 0
Weights_KeepZero(keys, idfs) == keys

\* .filter(|(_, &idf)| idf > 0.0)
Weights(keys, idfs) == { t \in keys : idfs[t] > 0 }

\* (offset + count - 1) as isize: the subtraction wraps below zero in a
\* release build (usize::MAX as isize is -1)
StopIndex(offset, count) ==
    IF offset + count = 0 THEN 0 - 1 ELSE offset + count - 1

\* ScoredIndexSearch::search, as one record: the commands sent, where it
\* ended and what it returned. failAt names the command the store answers
\* with an error ("none": every command is answered); build is "debug" when
\* arithmetic overflow panics and "release" when it wraps.
SearchOut(query, offset, count, failAt, build) ==
    LET base == [called |-> TRUE, query |-> query, offset |-> offset,
                 count |-> count, failAt |-> failAt, build |-> build,
                 status |-> "ok", ids |-> <<>>, known |-> 0, cmds |-> <<>>,
                 unionKeys |-> {}, keyLeft |-> FALSE]
        keys == DOMAIN KeysOf[query][FALSE]
        total_docs == TotalDocs(failAt)
        idfs == [t \in keys |-> Idf(total_docs, ZCard(t))]
        weights == Weights(keys, idfs)
        unionOk == failAt # "zunionstore"
        temp == IF unionOk THEN ZUnion(weights, idfs) ELSE EmptyMap
        known == IF unionOk THEN Cardinality(DOMAIN temp) ELSE 0
        made == DOMAIN temp # {}
    IN  IF keys = {} THEN base
        ELSE IF failAt = "zcard"
        THEN [base EXCEPT !.status = "panic", !.cmds = <<"scard", "zcard">>]
        ELSE IF weights = {}
        THEN [base EXCEPT !.cmds = <<"scard", "zcard">>]
        ELSE IF offset + count = 0 /\ build = "debug"
        THEN [base EXCEPT !.status = "panic", !.unionKeys = weights,
                          !.cmds = <<"scard", "zcard", "zunionstore">>,
                          !.keyLeft = made]
        ELSE IF failAt = "zrevrange"
        THEN [base EXCEPT !.status = "panic", !.unionKeys = weights,
                          !.cmds = <<"scard", "zcard", "zunionstore", "zrevrange">>,
                          !.keyLeft = made]
        ELSE IF failAt = "del"
        THEN [base EXCEPT !.status = "panic", !.unionKeys = weights,
                          !.cmds = <<"scard", "zcard", "zunionstore", "zrevrange", "del">>,
                          !.keyLeft = made]
        ELSE [base EXCEPT !.unionKeys = weights,
                          !.cmds = <<"scard", "zcard", "zunionstore", "zrevrange", "del">>,
                          !.ids = ZRevRange(temp, offset, StopIndex(offset, count)),
                          !.known = known]

Faults == {"none", "scard", "zcard", "zunionstore", "zrevrange", "del"}

\* one call of search; a fault is one of a command the call sends, and the
\* build matters only where the subtraction overflows
Search ==
    \E q \in StoreQueries, offset \in Offsets, count \in Counts,
       failAt \in Faults, build \in {"release", "debug"} :
        LET r == SearchOut(q, offset, count, failAt, build)
        IN  /\ failAt = "none" \/ failAt \in Range(r.cmds)
            /\ build = "release" \/ (offset + count = 0 /\ "zunionstore" \in Range(r.cmds))
            /\ tempKeys + (IF r.keyLeft THEN 1 ELSE 0) <= MaxLeaked
            /\ out' = r
            /\ tempKeys' = tempKeys + (IF r.keyLeft THEN 1 ELSE 0)
            /\ UNCHANGED <<indexed, zsets, lastHc, memVars, histVars>>

-----------------------------------------------------------------------------
(* Specifications                                                          *)

Init == MemInit /\ StoreInit

MemNext == AddDocument \/ MemSearch

\* the in-process index of lib.rs
SpecMem == Init /\ [][MemNext]_vars

StoreNext == HandleContent \/ Search

\* the persisted index of main.rs, indexing and searching
SpecStore == Init /\ [][StoreNext]_vars

\* the persisted index of main.rs, indexing only, with its history
SpecIndex == Init /\ [][HandleContentTracked]_vars

-----------------------------------------------------------------------------
(* Properties of the in-process index                                      *)

SetOfSeq(s) == { s[i] : i \in DOMAIN s }

\* every term a text of the model can produce
MemAllTerms ==
    UNION { SetOfSeq(MemTermsOf[c]) : c \in MemContents \cup MemQueries }

Posted(t, d) == t \in DOMAIN index /\ d \in DOMAIN index[t]

\* C1 as stated: doc_id d is listed under term t exactly when t occurs in the
\* normalized text of the document now stored under d, re-used ids included.
C1_PostingIffInCurrentText ==
    \A t \in MemAllTerms \cup DOMAIN index, d \in DocIds :
        Posted(t, d) <=>
            (d \in DOMAIN docs /\ t \in SetOfSeq(MemTermsOf[docs[d].content]))

\* C1 amended: doc_id d is listed under term t exactly when t occurs in the
\* normalized text of some document ever added under d; hence, as long as no
\* doc_id has been added twice, exactly when it occurs in the stored document.
C1_PostingIffInSomeAddedText ==
    /\ \A t \in MemAllTerms \cup DOMAIN index, d \in DocIds :
          Posted(t, d) <=> (\E c \in everAdded[d] : t \in SetOfSeq(MemTermsOf[c]))
    /\ ~readded => C1_PostingIffInCurrentText

C1_Witness ==
    /\ readded
    /\ \E d \in DOMAIN docs, t \in DOMAIN index :
          /\ d \in DOMAIN index[t]
          /\ t \notin SetOfSeq(MemTermsOf[docs[d].content])

\* sum of nterms over the stored documents
RECURSIVE SumNterms(_)
SumNterms(ds) ==
    IF ds = {} THEN 0
    ELSE LET d == CHOOSE x \in ds : TRUE
         IN  docs[d].nterms + SumNterms(ds \ {d})

\* distance of two f32 values in units of the last place of the smaller one
\* (1000 stands for "far apart")
UlpDist(a, b) ==
    IF a.m = 0 \/ b.m = 0 THEN (IF a = b THEN 0 ELSE 1000)
    ELSE IF a.e = b.e THEN (IF a.m >= b.m THEN a.m - b.m ELSE b.m - a.m)
    ELSE IF a.e = b.e + 1 THEN 2 * a.m - b.m
    ELSE IF b.e = a.e + 1 THEN 2 * b.m - a.m
    ELSE 1000

ExactMean == F32Quot(SumNterms(DOMAIN docs), Cardinality(DOMAIN docs))

C3_SearchReturnsExactlyMatches ==
    searchOut.called =>
        DOMAIN searchOut.scores =
            { d \in DocIds : \E t \in SetOfSeq(MemTermsOf[searchOut.query]) : Posted(t, d) }

C3_Witness ==
    /\ searchOut.called
    /\ DOMAIN searchOut.scores # {}
    /\ DOMAIN docs \ DOMAIN searchOut.scores # {}
    /\ \E t \in SetOfSeq(MemTermsOf[searchOut.query]) : t \notin DOMAIN index

\* C9: with avdl = 0, no posting's BM25 score is computed by dividing by
\* avdl, and no score is not-a-number.
C9_NoDivisionByZeroAvdl ==
    avdl.m = 0 =>
        /\ \A t \in DOMAIN index : DOMAIN index[t] = {}
        /\ \A t \in DOMAIN index : \A d \in DOMAIN bm25(t) : bm25(t)[d] # "nan"
        /\ \A d \in DOMAIN searchOut.scores : searchOut.scores[d] # "nan"

-----------------------------------------------------------------------------
(* Properties of the persisted index                                       *)

QueryTerms(q) == DOMAIN KeysOf[q][FALSE]

\* the ids and the scores of a returned list
IdsOf(ids) == { ids[i][1] : i \in DOMAIN ids }

\* the document frequency of t is positive and below the number of indexed ids
PositiveIdf(t) == ZCard(t) > 0 /\ ZCard(t) < Cardinality(indexed)

\* the last call is a search that directly follows handle_content(id, content,
\* add = true), for one term t of that content which no other indexed id holds,
\* with every command answered, offset 0 and count >= 1
C4_Case(t) ==
    /\ out.called /\ out.failAt = "none"
    /\ out.offset = 0 /\ out.count >= 1
    /\ lastHc.op = "add"
    /\ QueryTerms(out.query) = {t}
    /\ t \in DOMAIN KeysOf[lastHc.content][TRUE]
    /\ \A d \in indexed \ {lastHc.id} : d \notin DOMAIN ZSetOf(t)

C4_Found(t) ==
    /\ out.status = "ok"
    /\ \E i \in DOMAIN out.ids : out.ids[i][1] = lastHc.id /\ out.ids[i][2].m > 0
    /\ out.known = ZCard(t)

\* C4 as stated: a search that directly follows handle_content(id, content,
\* true), for a term of the content that no other indexed document holds,
\* returns id with a positive score and the term's document frequency.
C4_RoundTrip ==
    \A t \in DOMAIN zsets : C4_Case(t) => C4_Found(t)

\* C4 amended: it does so when the term's document frequency is below the
\* number of indexed ids (so at least two ids are indexed) and count is at
\* least the document frequency.
C4_RoundTripWithPositiveIdf ==
    \A t \in DOMAIN zsets :
        (C4_Case(t) /\ PositiveIdf(t) /\ out.count >= ZCard(t)) => C4_Found(t)

C4_Witness ==
    \E t \in DOMAIN zsets :
        /\ C4_Case(t) /\ PositiveIdf(t) /\ out.count >= ZCard(t)
        /\ out.ids = <<<<lastHc.id, F32Quot(1, 2)>>>>
        /\ out.known = 1

\* C5: whatever way a search call ends, the key it created is gone.
C5_TempKeyDeletedOnEveryExit ==
    out.called => (~out.keyLeft /\ tempKeys = 0)

\* the weighted union a search with every command answered reads back
UnionOfOut ==
    ZUnion(out.unionKeys,
           [t \in out.unionKeys |-> Idf(Cardinality(indexed), ZCard(t))])

\* C6: the returned list is the entries at ranks offset .. offset + count - 1
\* of the weighted union, from the highest score down; so it holds at most
\* count entries.
C6_SliceOfRankedUnion ==
    (out.called /\ out.status = "ok" /\ out.failAt = "none" /\ out.unionKeys # {}) =>
        LET r == Ranked(UnionOfOut)
            n == IF Len(r) - out.offset < 0 THEN 0
                 ELSE IF Len(r) - out.offset < out.count THEN Len(r) - out.offset
                 ELSE out.count
        IN  /\ out.ids = [i \in 1..n |->
                            <<r[out.offset + i], F32OfUnits(UnionOfOut[r[out.offset + i]])>>]
            /\ Len(out.ids) <= out.count

NoPositiveIdf(q) == \A t \in QueryTerms(q) : ~PositiveIdf(t)

C8_TermOfEveryDocumentScoresZero ==
    \A t \in DOMAIN zsets :
        ( /\ out.called /\ out.status = "ok" /\ out.failAt = "none"
          /\ out.offset = 0 /\ out.count >= ZCard(t)
          /\ QueryTerms(out.query) = {t}
          /\ indexed # {} /\ DOMAIN zsets[t] = indexed )
        => /\ IdsOf(out.ids) = indexed
           /\ \A i \in DOMAIN out.ids : out.ids[i][2] = F32Zero
           /\ out.known = ZCard(t)

\* the last two handle_content calls added and then removed the same content
\* under an id that the indexed set did not hold before
C10_Case ==
    /\ prevHc.op = "add" /\ lastHc.op = "remove"
    /\ lastHc.id = prevHc.id /\ lastHc.content = prevHc.content
    /\ lastHc.id \notin pre2.indexed

C10_Restored ==
    /\ indexed = pre2.indexed
    /\ zsets = pre2.zsets
    /\ lastHc.ret = prevHc.ret
    /\ lastHc.ret = Cardinality(Range(StoreWords(lastHc.content)))

\* C10 as stated: from any store in which id is not indexed, adding a content
\* under id and then removing the same content leaves the indexed set and
\* every sorted set as they were, and both calls return the number of
\* distinct terms of the content.
C10_AddRemoveRoundTrip ==
    C10_Case => C10_Restored

\* C10 amended: it does so from any store in which id is neither in the
\* indexed set nor in any sorted set.
C10_AddRemoveRoundTripFromCleanId ==
    (C10_Case /\ \A t \in DOMAIN pre2.zsets : lastHc.id \notin DOMAIN pre2.zsets[t])
        => C10_Restored

C10_Witness ==
    /\ C10_Case
    /\ \A t \in DOMAIN pre2.zsets : lastHc.id \notin DOMAIN pre2.zsets[t]
    /\ pre2.indexed # {}
    /\ \E t \in DOMAIN pre2.zsets : t \in DOMAIN KeysOf[lastHc.content][TRUE]
    /\ lastHc.ret = 2
    /\ zsets = pre2.zsets

====
